---- MODULE Spec2Model ----
(***************************************************************************)
(* Honeypot scam detector: the session handler (in-memory session store,   *)
(* turn counting, indicator extraction, reply fallback, automatic          *)
(* finalization), the stateless detection handlers and the UI engine.      *)
(*                                                                         *)
(* JavaScript runs each handler invocation on one thread: an invocation    *)
(* runs without interruption from one await to the next, and invocations   *)
(* interleave only at awaits.  Each action below is one such segment.      *)
(***************************************************************************)
EXTENDS Integers, Sequences, FiniteSets, Bags, TLC

(***************************************************************************)
(* Bounds of the model.                                                    *)
(***************************************************************************)
\* invocations of the session handler that may be in flight together
MaxInFlight == 2
\* inbound messages accepted in all before the model stops feeding the handler
MaxMessages == 5
\* of these, the messages accepted for each session other than the first
MaxOther == 1

(***************************************************************************)
(* JavaScript values.  A value is a tagged record; message texts are       *)
(* sequences of one-character strings so that substring matching and       *)
(* lower-casing are computed, replies and identifiers are atomic strings.  *)
(***************************************************************************)
Undefined == [t |-> "undefined"]
Null == [t |-> "null"]
Str(s) == [t |-> "string", v |-> s]
Txt(cs) == [t |-> "text", v |-> cs]

\* the values JavaScript's !x and x || y treat as false
Falsy(x) ==
    CASE x.t = "string" -> x.v = ""
      [] x.t = "text" -> x.v = <<>>
      [] OTHER -> TRUE

\* a || b
MutOr(a, b) == a
Or(a, b) == IF Falsy(a) THEN b ELSE a

Range(s) == {s[i] : i \in 1..Len(s)}

(***************************************************************************)
(* String.prototype.toLowerCase and RegExp.prototype.test for the plain    *)
(* alternations of literal words the handler uses.                         *)
(***************************************************************************)
UpperCase == <<"A","B","C","D","E","F","G","H","I","J","K","L","M",
               "N","O","P","Q","R","S","T","U","V","W","X","Y","Z">>
LowerCase == <<"a","b","c","d","e","f","g","h","i","j","k","l","m",
               "n","o","p","q","r","s","t","u","v","w","x","y","z">>

toLowerCaseChar(c) ==
    IF \E i \in 1..Len(UpperCase) : UpperCase[i] = c
    THEN LowerCase[CHOOSE i \in 1..Len(UpperCase) : UpperCase[i] = c]
    ELSE c

toLowerCase(cs) == [i \in 1..Len(cs) |-> toLowerCaseChar(cs[i])]

\* the literal word pat occurs in cs at some offset
Occurs(pat, cs) ==
    \E k \in 0..(Len(cs) - Len(pat)) :
        \A i \in 1..Len(pat) : cs[k + i] = pat[i]

\* /w1|w2|.../.test(cs)
test(pats, cs) == \E pat \in pats : Occurs(pat, cs)

OtpPatterns == { <<"o","t","p">>,
                 <<"o","n","e"," ","t","i","m","e"," ","p","a","s","s","w","o","r","d">> }
BankPatterns == { <<"u","p","i">>,
                  <<"a","c","c","o","u","n","t"," ","n","u","m","b","e","r">>,
                  <<"b","a","n","k">> }
LinkPatterns == { <<"l","i","n","k">>, <<"c","l","i","c","k">> }
ThreatPatterns == { <<"b","l","o","c","k","e","d">>,
                    <<"s","u","s","p","e","n","d","e","d">>,
                    <<"u","r","g","e","n","t">>,
                    <<"h","o","u","r","s">> }
LotteryPatterns == { <<"w","o","n">>, <<"p","r","i","z","e">>,
                     <<"r","e","w","a","r","d">> }

(***************************************************************************)
(* A JavaScript Set keeps its members in insertion order; Array.from       *)
(* lists them in that order.  A Set is a sequence without repetition.      *)
(***************************************************************************)
EmptySet == <<>>
MutSetAdd(s, x) == <<x>>
SetAdd(s, x) == IF x \in Range(s) THEN s ELSE Append(s, x)
ArrayFrom(s) == s

\* if (cond) set.add(tag)
AddIf(cond, s, tag) == IF cond THEN SetAdd(s, tag) ELSE s

\* the outcome of the five rule tests on a message text: text.toLowerCase()
\* and each regex's test
RuleHits(text) ==
    LET lower == toLowerCase(text)
    IN [otp |-> test(OtpPatterns, lower),
        bank |-> test(BankPatterns, lower),
        link |-> test(LinkPatterns, lower),
        threat |-> test(ThreatPatterns, lower),
        lottery |-> test(LotteryPatterns, lower)]

\* the three scamIndicators rules, in source order
ExtractIndicators(s, hit) ==
    AddIf(hit.lottery,
          AddIf(hit.threat,
                AddIf(hit.link, s, "Phishing Link"),
                "Threat / Urgency"),
          "Lottery Scam")

MutExtractRequested(s, hit) == AddIf(hit.bank, s, "Bank Details")
\* the two requestedData rules, in source order
ExtractRequested(s, hit) ==
    AddIf(hit.bank,
          AddIf(hit.otp, s, "OTP"),
          "Bank Details")

(***************************************************************************)
(* Inputs.                                                                 *)
(***************************************************************************)
\* "share OTP now"
TextOtp == <<"s","h","a","r","e"," ","O","T","P"," ","n","o","w">>
\* "UPI link"
TextUpiLink == <<"U","P","I"," ","l","i","n","k">>
\* "hello"
TextHello == <<"h","e","l","l","o">>

Texts == {TextOtp, TextUpiLink, TextHello}
\* the two example texts of the extraction contract, and a text in capitals
\* "Your account will be blocked in 24 hours, share OTP now"
ExampleBlocked ==
    <<"Y","o","u","r"," ","a","c","c","o","u","n","t"," ","w","i","l","l"," ",
      "b","e"," ","b","l","o","c","k","e","d"," ","i","n"," ","2","4"," ","h",
      "o","u","r","s",","," ","s","h","a","r","e"," ","O","T","P"," ","n","o",
      "w">>
\* "Congrats you won a prize, click this link"
ExampleWon ==
    <<"C","o","n","g","r","a","t","s"," ","y","o","u"," ","w","o","n"," ","a",
      " ","p","r","i","z","e",","," ","c","l","i","c","k"," ","t","h","i","s",
      " ","l","i","n","k">>
\* "URGENT: Bank"
TextShout ==
    <<"U","R","G","E","N","T",":"," ","B","a","n","k">>
\* the texts the extraction rules are exercised on
ExtractTexts == Texts \cup {ExampleBlocked, ExampleWon, TextShout}

\* the rule tests of every message text, computed once
Hits == [cs \in ExtractTexts |-> RuleHits(cs)]

SessionIds == {"s1", "s2"}

Methods == {"GET", "POST", "PUT"}
ApiKeyInputs == {Undefined, Str(""), Str("dev-key"), Str("wrong-key")}

\* req.body: absent, or the parsed envelope (message?.text is undefined when
\* message is absent, so the envelope carries the text or undefined)
Envelope(s, x) == [t |-> "object", sessionId |-> s, text |-> x]
\* the envelopes with both fields present and non-empty
CompleteBodies == {Envelope(Str(s), Txt(cs)) : s \in SessionIds, cs \in Texts}

\* envelopes lacking the session id, the text, or both
IncompleteBodies ==
    {Envelope(s, Txt(TextOtp)) : s \in {Undefined, Str("")}}
    \cup {Envelope(Str("s1"), x) : x \in {Undefined, Txt(<<>>)}}
    \cup {Envelope(Undefined, Undefined)}

\* with the right key: every method with no body, each incomplete and each
\* complete envelope; with each other key: every method with no body and with
\* one complete envelope
Requests ==
    [method : Methods, apiKey : {Str("dev-key")},
     body : {Undefined} \cup IncompleteBodies \cup CompleteBodies]
    \cup [method : Methods, apiKey : ApiKeyInputs \ {Str("dev-key")},
          body : {Undefined, Envelope(Str("s1"), Txt(TextOtp))}]

\* the accepted request that carries text cs for session sid
MessageRequest(sid, cs) ==
    [method |-> "POST", apiKey |-> Str("dev-key"), body |-> Envelope(Str(sid), Txt(cs))]

\* what the generative-text backend may do with one call
OracleOutcomes == {"networkError", "notJson", "noCandidates", "emptyText", "text"}
OracleFailures == {"networkError", "notJson", "noCandidates", "emptyText"}
\* what the evaluation endpoint may do with one POST
PostOutcomes == {"ok", "non2xx", "networkError"}

(***************************************************************************)
(* State.                                                                  *)
(***************************************************************************)
VARIABLES
    sessionState,   \* the in-memory session store: session id -> session or NoSession
    inv,            \* the bag of session handler invocations suspended at an await
    posts,          \* the reports POSTed to an evaluation endpoint, in order
    response,       \* the response the session handler sent last
    accepted,       \* per session id: inbound messages that passed validation
    gw,             \* the last exchange of a stateless handler: request, answer
    session,        \* the UI engine's session (React state)
    isLoading,      \* the UI engine's busy flag (React state)
    error,          \* the UI engine's error banner (React state)
    ui              \* the UI engine's handler call in flight, if any

serverVars == <<sessionState, inv, posts, response, accepted>>
uiVars == <<session, isLoading, error, ui>>
vars == <<sessionState, inv, posts, response, accepted, gw, session, isLoading, error, ui>>

NoSession == [t |-> "undefined"]

NewSession == [t |-> "object", turns |-> 0, scamIndicators |-> EmptySet,
               requestedData |-> EmptySet, finalized |-> FALSE]

NoResponse == [status |-> 0, body |-> Undefined]

\* res.status(code).json(body)
Respond(code, body) == [status |-> code, body |-> body]

ErrorBody(msg) == [error |-> msg]
SuccessBody(reply) == [status |-> "success", reply |-> reply]

\* an invocation suspended at the oracle call: its position and the locals it
\* reads after the await, with the turn count it saw
AtOracle(sid, turns, baseReply) ==
    [pc |-> "awaitOracle", sessionId |-> sid, turn |-> turns,
     baseReply |-> baseReply, geminiReply |-> Undefined, reply |-> Undefined]

\* the same invocation suspended at the report POST
AtPost(e, geminiReply, reply) ==
    [e EXCEPT !.pc = "awaitPost", !.geminiReply = geminiReply, !.reply = reply]

Invocations == BagToSet(inv)

\* const sessionState = {}: no invocation yet
SessionInit ==
    /\ sessionState = [s \in SessionIds |-> NoSession]
    /\ inv = EmptyBag
    /\ posts = <<>>
    /\ response = NoResponse
    /\ accepted = [s \in SessionIds |-> 0]

(***************************************************************************)
(* The session handler.                                                    *)
(***************************************************************************)
\* generateGeminiReply: the value the call yields for each oracle outcome
generateGeminiReply(outcome) ==
    CASE outcome = "networkError" -> Null          \* fetch rejects: catch
      [] outcome = "notJson" -> Null               \* response.json() rejects: catch
      [] outcome = "noCandidates" -> Undefined     \* data?.candidates?.[0]... is undefined
      [] outcome = "emptyText" -> Str("")
      [] OTHER -> Str("Could you tell me why that is needed?")

\* the canned reply for a turn count
BaseReply(turns) ==
    IF turns = 1 THEN Str("Why is my account being suspended?")
    ELSE IF turns = 2 THEN Str("What exactly do you need to verify?")
    ELSE IF turns = 3 THEN Str("I haven't received any official notification.")
    ELSE Str("Can you share official confirmation for this request?")

\* state.turns += 1
MutIncTurns(n) == n + 2
IncTurns(n) == n + 1

\* the turn count at which automatic finalization fires
FinalizeAt == 4

\* if (!sessionState[sessionId]) sessionState[sessionId] = {...}
GetOrCreate(store, sid) ==
    IF store[sid] = NoSession THEN NewSession ELSE store[sid]

\* the headers checks
AuthResponse(apiKey) ==
    IF Falsy(apiKey) THEN Respond(401, ErrorBody("x-api-key missing"))
    ELSE IF apiKey # Str("dev-key") THEN Respond(403, ErrorBody("Invalid API key"))
    ELSE NoResponse

\* if (!sessionId || !text)
EnvelopeIncomplete(body) == Falsy(body.sessionId) \/ Falsy(body.text)

\* the request passes every check of the handler and is processed as a message
Accepted(req) ==
    /\ AuthResponse(req.apiKey) = NoResponse
    /\ req.body # Undefined
    /\ ~EnvelopeIncomplete(req.body)

\* the inbound messages accepted so far, over all sessions
RECURSIVE Sum(_, _)
Sum(f, S) == IF S = {} THEN 0
             ELSE LET x == CHOOSE y \in S : TRUE IN f[x] + Sum(f, S \ {x})

MutReject(r) ==
    /\ response' = r
    /\ sessionState' = [sessionState EXCEPT !["s1"] = GetOrCreate(sessionState, "s1")]
    /\ UNCHANGED <<inv, posts, accepted>>
\* return res.status(...).json(...) before the session store is touched
Reject(r) ==
    /\ response' = r
    /\ UNCHANGED <<sessionState, inv, posts, accepted>>

\* the session after the handler has counted the message and run the five rules
Process(old, text) ==
    [old EXCEPT
       !.turns = IncTurns(old.turns),
       !.requestedData = ExtractRequested(old.requestedData, Hits[text]),
       !.scamIndicators = ExtractIndicators(old.scamIndicators, Hits[text])]

MutStoreSession(store, sid, state) == [s \in SessionIds |-> state]
\* sessionState[sessionId] holds the session object the handler mutated
StoreSession(store, sid, state) == [store EXCEPT ![sid] = state]

\* from the entry of the handler to the first await (the oracle call)
HandlerStart(req) ==
    /\ BagCardinality(inv) < MaxInFlight
    /\ IF AuthResponse(req.apiKey) # NoResponse
         THEN Reject(AuthResponse(req.apiKey))
       ELSE IF req.body = Undefined
         \* destructuring undefined throws: the platform answers 500
         THEN Reject(Respond(500, ErrorBody("unhandled TypeError")))
       ELSE IF EnvelopeIncomplete(req.body)
         THEN Reject(Respond(200, SuccessBody(Str("Can you explain this message?"))))
       ELSE
         LET sid == req.body.sessionId.v
             state == Process(GetOrCreate(sessionState, sid), req.body.text.v)
         IN /\ Sum(accepted, SessionIds) < MaxMessages
            /\ sid # "s1" => accepted[sid] < MaxOther
            /\ sessionState' = StoreSession(sessionState, sid, state)
            /\ accepted' = [accepted EXCEPT ![sid] = @ + 1]
            /\ inv' = inv (+) SetToBag({AtOracle(sid, state.turns, BaseReply(state.turns))})
            /\ UNCHANGED <<posts, response>>
    /\ UNCHANGED <<gw, session, isLoading, error, ui>>

MutIntelligencePayload(sid, state) ==
    [sessionId |-> sid,
     scamDetected |-> (state.scamIndicators # EmptySet \/ state.requestedData # EmptySet),
     scamIndicators |-> ArrayFrom(state.scamIndicators),
     requestedSensitiveData |-> ArrayFrom(state.requestedData),
     totalTurns |-> state.turns]
\* the report built from the session at finalization
IntelligencePayload(sid, state) ==
    [sessionId |-> sid,
     scamDetected |-> TRUE,
     scamIndicators |-> ArrayFrom(state.scamIndicators),
     requestedSensitiveData |-> ArrayFrom(state.requestedData),
     totalTurns |-> state.turns]

\* if (state.turns >= 4 && !state.finalized)
MutShouldFinalize(state) == state.turns >= FinalizeAt
MutLateFinalize(state) == state.turns > FinalizeAt /\ ~state.finalized
ShouldFinalize(state) == state.turns >= FinalizeAt /\ ~state.finalized

\* from the oracle's answer to the report POST, or to the response when
\* finalization does not fire
OracleReturn(e, outcome) ==
    /\ e \in Invocations
    /\ e.pc = "awaitOracle"
    /\ LET sid == e.sessionId
           state == sessionState[sid]
           geminiReply == generateGeminiReply(outcome)
           reply == Or(geminiReply, e.baseReply)
       IN IF ShouldFinalize(state)
            THEN /\ sessionState' = [sessionState EXCEPT ![sid].finalized = TRUE]
                 /\ posts' = Append(posts, IntelligencePayload(sid, state))
                 /\ inv' = (inv (-) SetToBag({e})) (+) SetToBag({AtPost(e, geminiReply, reply)})
                 /\ UNCHANGED response
            ELSE /\ response' = Respond(200, SuccessBody(reply))
                 /\ inv' = inv (-) SetToBag({e})
                 /\ UNCHANGED <<sessionState, posts>>
    /\ UNCHANGED <<accepted, gw, session, isLoading, error, ui>>

\* from the end of the report POST (any outcome; a rejection is caught) to the response
MutFinalResponse(e, outcome) ==
    IF outcome = "ok" THEN Respond(200, SuccessBody(e.reply))
    ELSE Respond(500, ErrorBody("report failed"))
\* the final response after the POST: the catch is empty and response.ok is
\* never read, so the outcome of the POST does not reach it
FinalResponse(e, outcome) == Respond(200, SuccessBody(e.reply))

PostReturn(e, outcome) ==
    /\ e \in Invocations
    /\ e.pc = "awaitPost"
    /\ response' = FinalResponse(e, outcome)
    /\ inv' = inv (-) SetToBag({e})
    /\ UNCHANGED <<sessionState, posts, accepted, gw, session, isLoading, error, ui>>

(***************************************************************************)
(* The stateless handlers.  Each runs from request to answer on its own:   *)
(* it shares no state with any other invocation, so one action is one      *)
(* whole invocation, with the oracle's behaviour as an input.              *)
(***************************************************************************)
\* an exchange: which handler, the request, the answer, whether the oracle was called
Exchange(h, req, resp, called) ==
    [handler |-> h, req |-> req, resp |-> resp, oracleCalled |-> called]

NoExchange == Exchange("none", Undefined, NoResponse, FALSE)

\* the bodies the detection handlers read a top-level text from
TextBodies == {Undefined} \cup
              {[t |-> "object", text |-> x] :
                  x \in {Undefined, Txt(<<>>), Txt(TextOtp), Txt(TextHello)}}
TextRequests == [method : Methods, apiKey : ApiKeyInputs, body : TextBodies]

\* detect.js: the four canned questions, one of which Math.random picks
fallbackReplies == << Str("Why is this action required?"),
                      Str("Can you explain this in more detail?"),
                      Str("I haven't received any official message about this."),
                      Str("What is the reason for this request?") >>

\* detect.js: the text of the oracle's first candidate, trimmed, or null
DetectGeminiReply(outcome) ==
    IF outcome = "text" THEN Str("Could you tell me why that is needed?") ELSE Null

\* detect.js: the answer to one request
DetectResponse(req, geminiKeySet, outcome, pick) ==
    IF req.method # "POST"
      THEN Respond(405, ErrorBody("Method not allowed"))
    ELSE IF Falsy(req.apiKey) \/ req.apiKey # Str("dev-key")
      THEN Respond(401, [status |-> "error", message |-> "Unauthorized: invalid x-api-key"])
    ELSE IF ~geminiKeySet
      THEN Respond(500, [status |-> "error",
                         message |-> "Gemini API key not configured on server"])
    ELSE IF req.body = Undefined \/ Falsy(req.body.text)
      \* req.body || {} ; !message || !message.text
      THEN Respond(400, ErrorBody("Invalid request body"))
    ELSE IF outcome \in {"networkError", "notJson"}
      \* the await rejects: the outer catch
      THEN Respond(500, [status |-> "error",
                         reply |-> Str("Can you please explain what this is regarding?")])
    ELSE Respond(200, SuccessBody(Or(DetectGeminiReply(outcome), fallbackReplies[pick])))

\* detect.js: the request reaches the oracle call
DetectCallsOracle(req, geminiKeySet) ==
    /\ req.method = "POST"
    /\ req.apiKey = Str("dev-key")
    /\ geminiKeySet
    /\ req.body # Undefined
    /\ ~Falsy(req.body.text)

DetectHandler(req, geminiKeySet, outcome, pick) ==
    /\ gw' = Exchange("detect", req, DetectResponse(req, geminiKeySet, outcome, pick),
                      DetectCallsOracle(req, geminiKeySet))
    /\ UNCHANGED <<serverVars, uiVars>>

\* the detection handler: what the oracle may do with the structured-result call
DetectionOutcomes == {"networkError", "notJson", "noCandidates", "emptyText", "prose",
                      "jsonNumber", "jsonNull", "jsonPartial", "jsonResult"}

DefaultResult == [isScam |-> FALSE, reply |-> "Okay, thanks for the message!",
                  scamType |-> "None"]

\* the detection handler: JSON.parse(aiText), with the fallback of its catch
ParseResult(outcome) ==
    CASE outcome = "jsonNumber" -> [t |-> "number", v |-> 42]
      [] outcome = "jsonNull" -> Null
      [] outcome = "jsonPartial" -> [isScam |-> TRUE]
      [] outcome = "jsonResult" ->
            [isScam |-> TRUE, reply |-> "Oh no, what should I do?", scamType |-> "OTP"]
      [] OTHER -> DefaultResult     \* "" or prose: JSON.parse throws

\* the detection handler: the answer to one request
ScamCheckResponse(req, outcome) ==
    IF req.method = "GET"
      THEN Respond(200, [status |-> "ok"])
    ELSE IF req.method # "POST"
      THEN Respond(405, ErrorBody("Method not allowed"))
    ELSE IF req.apiKey # Str("dev-key")
      THEN Respond(401, ErrorBody("Unauthorized"))
    ELSE IF req.body = Undefined
      \* destructuring undefined throws outside the try: the platform answers 500
      THEN Respond(500, ErrorBody("unhandled TypeError"))
    ELSE IF Falsy(req.body.text)
      THEN Respond(400, ErrorBody("Text is required"))
    ELSE IF outcome \in {"networkError", "notJson"}
      THEN Respond(500, ErrorBody("Gemini failed"))
    ELSE Respond(200, ParseResult(outcome))

ScamCheckCallsOracle(req) ==
    /\ req.method = "POST"
    /\ req.apiKey = Str("dev-key")
    /\ req.body # Undefined
    /\ ~Falsy(req.body.text)

ScamCheckHandler(req, outcome) ==
    /\ gw' = Exchange("scamCheck", req, ScamCheckResponse(req, outcome),
                      ScamCheckCallsOracle(req))
    /\ UNCHANGED <<serverVars, uiVars>>

\* the tester handler: /otp|upi|blocked/i.test(text)
TesterPatterns == { <<"o","t","p">>, <<"u","p","i">>, <<"b","l","o","c","k","e","d">> }

\* the tester handler: the answer to one request
TesterResponse(req, outcome) ==
    IF AuthResponse(req.apiKey) # NoResponse
      THEN AuthResponse(req.apiKey)
    ELSE IF req.body = Undefined \/ req.body.text.t # "text"
      \* !req.body || typeof req.body.text !== "string"
      THEN Respond(200, [status |-> "ok", authenticated |-> TRUE, honeypot |-> TRUE])
    ELSE IF outcome \in {"networkError", "notJson"}
      \* the await rejects and nothing catches it: the platform answers 500
      THEN Respond(500, ErrorBody("unhandled rejection"))
    ELSE Respond(200, [scam |-> test(TesterPatterns, toLowerCase(req.body.text.v)),
                       aiResponse |-> generateGeminiReply(outcome)])

TesterCallsOracle(req) ==
    /\ AuthResponse(req.apiKey) = NoResponse
    /\ req.body # Undefined
    /\ req.body.text.t = "text"

TesterHandler(req, outcome) ==
    /\ gw' = Exchange("tester", req, TesterResponse(req, outcome), TesterCallsOracle(req))
    /\ UNCHANGED <<serverVars, uiVars>>

GatewayNext ==
    \/ \E req \in Requests, k \in BOOLEAN, o \in OracleOutcomes,
          pick \in 1..Len(fallbackReplies) : DetectHandler(req, k, o, pick)
    \/ \E req \in TextRequests, o \in DetectionOutcomes : ScamCheckHandler(req, o)
    \/ \E req \in TextRequests, o \in OracleOutcomes : TesterHandler(req, o)

(***************************************************************************)
(* The UI engine (App.tsx).  The services it awaits (detectScamIntent,     *)
(* generateAgentResponse, extractIntelligence) answer from the oracle:     *)
(* each call yields one of a few results, or throws.  Message timestamps   *)
(* are for display only and are left out.                                  *)
(***************************************************************************)
\* messages one UI session takes before the model stops feeding it
MaxUiMessages == 2

UiTexts == {Str(""), Str("Your KYC is pending, send UPI"), Str("hello")}

DEFAULT_NON_SCAM_REPLY == "Okay, thanks for the message!"

createEmptyIntelligence ==
    [bankAccounts |-> <<>>, upiIds |-> <<>>, phishingLinks |-> <<>>,
     phoneNumbers |-> <<>>, suspiciousKeywords |-> <<>>]

\* what detectScamIntent may resolve to
DetectionResults ==
    { [isScam |-> TRUE, scamType |-> "Bank", initialReply |-> "Oh no, what should I do?"],
      [isScam |-> FALSE, scamType |-> "None", initialReply |-> ""] }

\* what generateAgentResponse may resolve to
AgentResponses == { [reply |-> "Which account do you mean?"] }

\* what extractIntelligence may resolve to
ExtractionResults ==
    { createEmptyIntelligence,
      [createEmptyIntelligence EXCEPT !.upiIds = <<"scammer@upi">>],
      [createEmptyIntelligence EXCEPT !.upiIds = <<"scammer@upi">>,
                                      !.suspiciousKeywords = <<"KYC">>] }

\* the services' answers to the calls of one processHoneypotLogic run
ServiceAnswers ==
    [throws : BOOLEAN, detection : DetectionResults, agent : AgentResponses,
     extraction : ExtractionResults]

\* useState initializer with nothing saved: a fresh session
InitialSession(id) ==
    [sessionId |-> id, conversationHistory |-> <<>>, scamDetected |-> FALSE,
     totalMessagesExchanged |-> 0, extractedIntelligence |-> createEmptyIntelligence,
     agentNotes |-> "", scamType |-> Null, status |-> "active"]

NoCall == [pc |-> "none"]

ScammerMessage(text) == [sender |-> "scammer", text |-> text]
HoneypotMessage(text) == [sender |-> "honeypot", text |-> text]

\* processHoneypotLogic: the reply of the turn
AgentReply(currentSession, a) ==
    IF ~currentSession.scamDetected
      THEN IF a.detection.isScam THEN a.detection.initialReply ELSE DEFAULT_NON_SCAM_REPLY
      ELSE a.agent.reply

MutNewScamDetected(currentSession, a) == a.detection.isScam
\* processHoneypotLogic: scamDetected after the turn
NewScamDetected(currentSession, a) ==
    IF ~currentSession.scamDetected THEN a.detection.isScam ELSE currentSession.scamDetected

\* processHoneypotLogic: the intelligence kept after the turn
ExtractedData(currentSession, a) ==
    IF NewScamDetected(currentSession, a)
      THEN a.extraction
      ELSE currentSession.extractedIntelligence

MutUpdatedSessionState(currentSession, text, a) ==
    [currentSession EXCEPT
        !.conversationHistory =
            currentSession.conversationHistory \o
              << ScammerMessage(text), HoneypotMessage(AgentReply(currentSession, a)),
                 ScammerMessage(text), HoneypotMessage(AgentReply(currentSession, a)) >>,
        !.totalMessagesExchanged = currentSession.totalMessagesExchanged + 2]
\* processHoneypotLogic: the services one run awaits
ServicesCalled(currentSession, a) ==
    (IF ~currentSession.scamDetected
       THEN {"detectScamIntent"} ELSE {"generateAgentResponse"})
    \cup (IF NewScamDetected(currentSession, a) THEN {"extractIntelligence"} ELSE {})

\* processHoneypotLogic: updatedSessionState
UpdatedSessionState(currentSession, text, a) ==
    [currentSession EXCEPT
        !.conversationHistory =
            currentSession.conversationHistory \o
              << ScammerMessage(text), HoneypotMessage(AgentReply(currentSession, a)) >>,
        !.scamDetected = NewScamDetected(currentSession, a),
        !.scamType = IF ~currentSession.scamDetected
                       THEN Str(a.detection.scamType) ELSE currentSession.scamType,
        !.totalMessagesExchanged = currentSession.totalMessagesExchanged + 2,
        !.extractedIntelligence = ExtractedData(currentSession, a)]

\* simulateHoneypotApiEndpoint: the status it answers
SimulatedStatus(method, apiKey, sessionId, text, a) ==
    IF method # "POST" THEN 405
    ELSE IF Falsy(apiKey) \/ apiKey # Str("dev-key") THEN 401
    ELSE IF Falsy(sessionId) \/ Falsy(text) THEN 400
    ELSE IF a.throws THEN 500
    ELSE 200

\* the prop App passes to ChatInput as isLoading: the input is disabled
ChatInputDisabled == isLoading \/ session.status = "completed"

\* handleIncomingMessage, from the click to the await of the simulated endpoint
HandleIncomingMessage(text) ==
    /\ ~ChatInputDisabled
    /\ ui = NoCall
    /\ Len(session.conversationHistory) < 2 * MaxUiMessages
    /\ isLoading' = TRUE
    /\ error' = Null
    /\ ui' = [pc |-> "awaitApi", session |-> session, text |-> text]
    /\ UNCHANGED <<session, serverVars, gw>>

\* catch and finally of handleIncomingMessage
UiFail(msg) ==
    /\ error' = Str(msg)
    /\ isLoading' = FALSE
    /\ ui' = NoCall
    /\ UNCHANGED session

\* handleIncomingMessage, from the simulated endpoint's answer to the await
\* of the second processHoneypotLogic run
ApiAnswered(a) ==
    /\ ui.pc = "awaitApi"
    /\ LET status == SimulatedStatus("POST", Str("dev-key"), ui.session.sessionId,
                                     ui.text, a)
       IN IF status = 200
            THEN /\ ui' = [ui EXCEPT !.pc = "awaitLogic"]
                 /\ UNCHANGED <<session, isLoading, error>>
            ELSE UiFail("Failed to process message: API Error")
    /\ UNCHANGED <<serverVars, gw>>

\* handleIncomingMessage, from the second run's result to the end
LogicDone(a) ==
    /\ ui.pc = "awaitLogic"
    /\ IF a.throws
         THEN UiFail("Failed to process message")
         ELSE /\ session' = UpdatedSessionState(ui.session, ui.text.v, a)
              /\ isLoading' = FALSE
              /\ ui' = NoCall
              /\ UNCHANGED error
    /\ UNCHANGED <<serverVars, gw>>

\* what generateAgentNotes may do: resolve with notes, or reject
AgentNotesResults == [throws : BOOLEAN, notes : {"The caller pressed for a UPI transfer."}]

\* what the evaluation endpoint may do with the UI engine's POST; a non-2xx
\* answer has a JSON body or one response.json() rejects on
SubmitOutcomes == {"ok", "non2xx", "non2xxNotJson", "networkError"}

\* the session identifiers uuidv4 hands out, in order
UiSessionIds == << Str("ui-1"), Str("ui-2") >>
\* reports the UI engine submits before the model stops triggering
MaxUiReports == 2

\* handleEndEngagement: finalPayload, from the session the callback closed over
FinalPayload(s, notes) ==
    [sessionId |-> s.sessionId,
     scamDetected |-> s.scamDetected,
     totalMessagesExchanged |-> s.totalMessagesExchanged,
     extractedIntelligence |-> s.extractedIntelligence,
     agentNotes |-> notes]

\* setSession(prevSession => ({ ...prevSession, status: 'active' }))
RevertedStatus == "active"

\* catch and finally of handleEndEngagement
EndFail(msg) ==
    /\ error' = Str(msg)
    /\ session' = [session EXCEPT !.status = RevertedStatus]
    /\ isLoading' = FALSE
    /\ ui' = NoCall

\* handleEndEngagement, from the click to the await of generateAgentNotes; a
\* click on a completed or busy engine returns at once
HandleEndEngagement ==
    /\ Len(posts) < MaxUiReports
    /\ IF session.status = "completed" \/ isLoading
         THEN UNCHANGED <<session, isLoading, error, ui>>
         ELSE /\ isLoading' = TRUE
              /\ error' = Null
              /\ ui' = [pc |-> "awaitNotes", session |-> session, text |-> Null]
              /\ UNCHANGED session
    /\ UNCHANGED <<serverVars, gw>>

\* handleEndEngagement, from the notes to the await of the report POST
NotesDone(r) ==
    /\ ui.pc = "awaitNotes"
    /\ IF r.throws
         THEN /\ EndFail("Failed to submit final results")
              /\ UNCHANGED posts
         ELSE /\ session' = [session EXCEPT !.agentNotes = r.notes, !.status = "completed"]
              /\ posts' = Append(posts, FinalPayload(ui.session, r.notes))
              /\ ui' = [ui EXCEPT !.pc = "awaitSubmit"]
              /\ UNCHANGED <<isLoading, error>>
    /\ UNCHANGED <<sessionState, inv, response, accepted, gw>>

\* handleEndEngagement, from the endpoint's answer to the end
SubmitDone(outcome) ==
    /\ ui.pc = "awaitSubmit"
    /\ IF outcome = "ok"
         THEN /\ isLoading' = FALSE
              /\ ui' = NoCall
              /\ UNCHANGED <<session, error>>
         ELSE EndFail("Failed to submit final results")
    /\ UNCHANGED <<serverVars, gw>>

\* handleResetSession: a busy engine or a declined confirm leaves everything
HandleResetSession(confirmReset) ==
    /\ \E i \in 1..(Len(UiSessionIds) - 1) :
          /\ session.sessionId = UiSessionIds[i]
          /\ IF isLoading \/ ~confirmReset
               THEN UNCHANGED <<session, error>>
               ELSE /\ session' = InitialSession(UiSessionIds[i + 1])
                    /\ error' = Null
    /\ UNCHANGED <<isLoading, ui, serverVars, gw>>

UiInit ==
    /\ session = InitialSession(UiSessionIds[1])
    /\ isLoading = FALSE
    /\ error = Null
    /\ ui = NoCall

UiNext ==
    \/ \E text \in UiTexts : HandleIncomingMessage(text)
    \/ \E a \in ServiceAnswers : ApiAnswered(a)
    \/ \E a \in ServiceAnswers : LogicDone(a)
    \/ HandleEndEngagement
    \/ \E r \in AgentNotesResults : NotesDone(r)
    \/ \E outcome \in SubmitOutcomes : SubmitDone(outcome)
    \/ \E confirmReset \in BOOLEAN : HandleResetSession(confirmReset)

(***************************************************************************)
(* The specifications.                                                     *)
(***************************************************************************)
Init ==
    /\ SessionInit
    /\ gw = NoExchange
    /\ UiInit

Next ==
    \/ \E req \in Requests : HandlerStart(req)
    \/ \E e \in Invocations, outcome \in OracleOutcomes : OracleReturn(e, outcome)
    \/ \E e \in Invocations, outcome \in PostOutcomes : PostReturn(e, outcome)

\* the session handler under every interleaving of its invocations
Spec == Init /\ [][Next]_vars

\* the stateless handlers, one request after another
SpecGateway == Init /\ [][GatewayNext]_vars

\* the UI engine
SpecUI == Init /\ [][UiNext]_vars

\* the session handler fed one message at a time, over the extraction texts
ExtractNext ==
    \/ \E sid \in SessionIds, cs \in ExtractTexts :
          inv = EmptyBag /\ HandlerStart(MessageRequest(sid, cs))
    \/ \E e \in Invocations, outcome \in {"text", "networkError"} : OracleReturn(e, outcome)
    \/ \E e \in Invocations : PostReturn(e, "ok")

SpecExtract == Init /\ [][ExtractNext]_vars

(***************************************************************************)
(* Properties of the stateless handlers and of the UI engine.              *)
(***************************************************************************)
\* C8: every handler that checks the x-api-key header answers a request that
\* reaches the check 401 when the header is absent and 403 when it carries
\* another (non-empty) value, and calls no oracle for it.
C8_MissingIs401InvalidIs403 ==
    (gw.handler # "none" /\ (gw.req.method = "POST" \/ gw.handler = "tester")) =>
        /\ gw.req.apiKey = Undefined =>
              gw.resp.status = 401 /\ ~gw.oracleCalled
        /\ gw.req.apiKey = Str("wrong-key") =>
              gw.resp.status = 403 /\ ~gw.oracleCalled

\* C4: within one UI session every item of the extracted intelligence stays
\* once it is there.
C4_IntelligenceOnlyGrows ==
    [][session'.sessionId = session.sessionId =>
          LET old == session.extractedIntelligence
              new == session'.extractedIntelligence
          IN /\ Range(old.bankAccounts) \subseteq Range(new.bankAccounts)
             /\ Range(old.upiIds) \subseteq Range(new.upiIds)
             /\ Range(old.phishingLinks) \subseteq Range(new.phishingLinks)
             /\ Range(old.phoneNumbers) \subseteq Range(new.phoneNumbers)
             /\ Range(old.suspiciousKeywords) \subseteq Range(new.suspiciousKeywords)]_vars

(***************************************************************************)
(* Properties of the session handler.                                      *)
(***************************************************************************)
TurnsIn(store, sid) == IF store[sid] = NoSession THEN 0 ELSE store[sid].turns
IndicatorsIn(store, sid) ==
    IF store[sid] = NoSession THEN {} ELSE Range(store[sid].scamIndicators)
RequestedIn(store, sid) ==
    IF store[sid] = NoSession THEN {} ELSE Range(store[sid].requestedData)
Turns(sid) == TurnsIn(sessionState, sid)
Indicators(sid) == IndicatorsIn(sessionState, sid)
Requested(sid) == RequestedIn(sessionState, sid)
Finalized(sid) == sessionState[sid] # NoSession /\ sessionState[sid].finalized
\* the reports POSTed for one session
PostsFor(sid) == {i \in 1..Len(posts) : posts[i].sessionId = sid}

\* C1: a session exists exactly when a message was accepted for it, and its
\* turn counter equals the number of messages accepted for it (so the first
\* accepted message takes it from 0 to 1, and each further one adds exactly 1).
C1_TurnsCountAccepted ==
    \A sid \in SessionIds :
        /\ (accepted[sid] = 0) <=> (sessionState[sid] = NoSession)
        /\ Turns(sid) = accepted[sid]

\* C1 witness: a session that has taken messages past the finalization
\* threshold, with one of them still suspended at an await.
C1_Witness ==
    \E sid \in SessionIds :
        /\ accepted[sid] > FinalizeAt
        /\ Turns(sid) = accepted[sid]
        /\ \E e \in Invocations : e.sessionId = sid

\* C2: for every session at most one report is ever POSTed, and one has been
\* POSTed exactly when the session is finalized.
C2_AtMostOnePost ==
    \A sid \in SessionIds :
        /\ Cardinality(PostsFor(sid)) <= 1
        /\ Finalized(sid) <=> PostsFor(sid) # {}

\* C2 witness: an invocation is suspended at the report POST while another one
\* of the same session, past the threshold as well, is suspended at the oracle.
C2_Witness ==
    \E e1, e2 \in Invocations :
        /\ e1.sessionId = e2.sessionId
        /\ e1.pc = "awaitPost" /\ e2.pc = "awaitOracle"
        /\ e2.turn >= FinalizeAt
        /\ Cardinality(PostsFor(e1.sessionId)) = 1

\* C3: once a session is finalized, no step changes its turn counter, its
\* scamIndicators or its requestedData (a further message is turned away).
C3_ClosedSessionUntouched ==
    [][\A sid \in SessionIds :
          Finalized(sid) =>
              /\ sessionState'[sid].turns = sessionState[sid].turns
              /\ sessionState'[sid].scamIndicators = sessionState[sid].scamIndicators
              /\ sessionState'[sid].requestedData = sessionState[sid].requestedData]_vars

\* C5: every report carries totalTurns = 4 and the lists of the session's sets
\* as they are when the report is built.
C5_ReportAtTurnFour ==
    [][posts' # posts =>
          LET r == posts'[Len(posts')]
              state == sessionState[r.sessionId]
          IN /\ r.totalTurns = FinalizeAt
             /\ r.scamIndicators = ArrayFrom(state.scamIndicators)
             /\ r.requestedSensitiveData = ArrayFrom(state.requestedData)]_vars

\* the tags a text adds to an empty session
TagsOf(text) ==
    Range(ExtractIndicators(EmptySet, Hits[text]))
    \cup Range(ExtractRequested(EmptySet, Hits[text]))

\* C6: no step lowers a session's turn counter or removes a tag, whatever else
\* is in flight; and every accepted message, also one accepted while other
\* invocations of its session are suspended, raises the counter by exactly one
\* and leaves every tag it would add alone in the session's sets.
C6_NoLostUpdate ==
    [][\A sid \in SessionIds :
          /\ sessionState'[sid] # sessionState[sid] =>
                /\ Turns(sid) <= TurnsIn(sessionState', sid)
                /\ Indicators(sid) \subseteq IndicatorsIn(sessionState', sid)
                /\ Requested(sid) \subseteq RequestedIn(sessionState', sid)
          /\ accepted'[sid] # accepted[sid] =>
                \A cs \in Texts :
                    HandlerStart(MessageRequest(sid, cs)) =>
                        /\ TurnsIn(sessionState', sid) = Turns(sid) + 1
                        /\ TagsOf(cs) \subseteq
                              IndicatorsIn(sessionState', sid) \cup RequestedIn(sessionState', sid)]_vars

\* C6 witness: two invocations of one session are suspended at the oracle
\* together, the counter has counted both, and the tags of both are kept.
C6_Witness ==
    \E e1, e2 \in Invocations :
        /\ e1 # e2
        /\ e1.sessionId = e2.sessionId
        /\ e1.pc = "awaitOracle" /\ e2.pc = "awaitOracle"
        /\ Turns(e1.sessionId) = 2
        /\ Requested(e1.sessionId) = {"OTP", "Bank Details"}

\* C7: when the oracle call fails (network error, unparseable response, no
\* candidate, empty text) the invocation answers 200 success with exactly the
\* canned reply of the turn it counted, also when the report POST comes between.
C7_FallbackIsBaseline ==
    [][/\ inv' # inv => \A e \in Invocations, o \in OracleFailures :
            OracleReturn(e, o) =>
                IF BagCardinality(inv') < BagCardinality(inv)
                THEN response' = Respond(200, SuccessBody(BaseReply(e.turn)))
                ELSE AtPost(e, generateGeminiReply(o), BaseReply(e.turn)) \in BagToSet(inv')
       /\ inv' # inv => \A e \in Invocations, o \in PostOutcomes :
            (PostReturn(e, o) /\ Falsy(e.geminiReply)) =>
                response' = Respond(200, SuccessBody(BaseReply(e.turn)))
       /\ response'.status = 200 /\ response'.body.status = "success" =>
            ~Falsy(response'.body.reply)]_vars

\* C7 witness: the invocation that finalized its session has answered with
\* the canned reply of the threshold turn, which only the fallback produces.
C7_Witness ==
    /\ \E sid \in SessionIds : Finalized(sid)
    /\ inv = EmptyBag
    /\ response = Respond(200, SuccessBody(BaseReply(FinalizeAt)))

\* C9: an authenticated POST whose envelope lacks a non-empty sessionId or a
\* non-empty message.text is answered with status 400.
C9_IncompleteEnvelopeIs400 ==
    [][\A req \in Requests :
          ( /\ HandlerStart(req)
            /\ req.method = "POST"
            /\ req.apiKey = Str("dev-key")
            /\ req.body # Undefined
            /\ EnvelopeIncomplete(req.body) ) => response'.status = 400]_vars

\* C10: a request whose method is not POST is never processed as an inbound
\* message: it creates or changes no session, starts no oracle call and causes
\* no report, and it is not answered as a success.
C10_NonPostNotProcessed ==
    [][\A req \in Requests :
          (HandlerStart(req) /\ req.method # "POST") =>
              /\ UNCHANGED <<sessionState, inv, posts>>
              /\ response'.status # 200]_vars

\* C11: when the report POST fails (network error or non-2xx answer) the
\* invocation that finalized the session still answers 200 success, with the
\* reply it had chosen before the POST, the one a successful POST ends with.
C11_ReportFailureAbsorbed ==
    [][inv' # inv => \A e \in Invocations, o \in PostOutcomes \ {"ok"} :
            PostReturn(e, o) =>
                /\ response' = Respond(200, SuccessBody(Or(e.geminiReply, e.baseReply)))
                /\ response' = FinalResponse(e, "ok")]_vars

\* C11 witness: the invocation that finalized a session with the oracle's own
\* text as its reply has come back from the report POST and answered.
C11_Witness ==
    /\ \E sid \in SessionIds :
          /\ Finalized(sid)
          /\ PostsFor(sid) # {}
          /\ \A e \in Invocations : e.sessionId # sid
    /\ response = Respond(200, SuccessBody(generateGeminiReply("text")))
\* C12: the lifecycle is one-way: a finalized session of the session handler
\* stays finalized, and a session of the UI engine whose status is
\* 'completed' keeps that status for as long as it is the engine's session.
C12_FinalizedIsTerminal ==
    [][/\ \A sid \in SessionIds :
            Finalized(sid) =>
                sessionState'[sid] # NoSession /\ sessionState'[sid].finalized
       /\ (session.status = "completed" /\ session'.sessionId = session.sessionId) =>
            session'.status = "completed"]_vars
\* the reports the UI engine has POSTed for the session with identifier id
UiReportsFor(id) == {i \in 1..Len(posts) : posts[i].sessionId = id}

\* C13: over any sequence of end-engagement triggers at most one report is
\* POSTed for a session of the UI engine, and a trigger on a completed session
\* changes no session field and POSTs nothing.
C13_EndEngagementOnce ==
    [][/\ \A id \in Range(UiSessionIds) : Cardinality(UiReportsFor(id)') <= 1
       /\ (HandleEndEngagement /\ session.status = "completed") =>
            UNCHANGED <<session, posts>>]_vars
\* C14: the detection handler answers every request that reaches the oracle
\* with status 200 and a result of the shape {isScam, reply, scamType}; when
\* the oracle fails or its text is not a well-formed result of that shape,
\* the result is exactly the default one.
C14_DetectionResultShape ==
    [][\A req \in TextRequests, o \in DetectionOutcomes :
          (ScamCheckCallsOracle(req) /\ ScamCheckHandler(req, o)) =>
              /\ gw'.resp.status = 200
              /\ DOMAIN gw'.resp.body = {"isScam", "reply", "scamType"}
              /\ o # "jsonResult" => gw'.resp.body = DefaultResult]_vars
\* the oracle failures that leave a handler without a candidate text
OracleBreakdowns == {"networkError", "notJson", "noCandidates"}

\* a response that hides the failure: not a 5xx, a reply and no error text
PoliteAnswer(r) ==
    /\ r.status < 500
    /\ "reply" \in DOMAIN r.body
    /\ "error" \notin DOMAIN r.body

\* C15: in the stateless handlers a failed oracle call (fetch rejects, the
\* response is not JSON, no candidates) is not surfaced: the answer is not a
\* 5xx and carries a reply, not error text.
C15_OracleFailureHidden ==
    [][\A o \in OracleBreakdowns :
          /\ \A req \in Requests, pick \in 1..Len(fallbackReplies) :
                (DetectCallsOracle(req, TRUE) /\ DetectHandler(req, TRUE, o, pick)) =>
                    PoliteAnswer(gw'.resp)
          /\ \A req \in TextRequests :
                /\ (ScamCheckCallsOracle(req) /\ ScamCheckHandler(req, o)) =>
                      PoliteAnswer(gw'.resp)
                /\ (TesterCallsOracle(req) /\ TesterHandler(req, o)) =>
                      PoliteAnswer(gw'.resp)]_vars
FinalizedIn(store, sid) == store[sid] # NoSession /\ store[sid].finalized

\* C16: a finalized session has a turn counter of at least 4, and an
\* invocation that completes (sends its response) for a session whose counter
\* is at least 4 leaves that session finalized.
C16_FinalizedAtThreshold ==
    [][/\ \A sid \in SessionIds :
            FinalizedIn(sessionState', sid) => TurnsIn(sessionState', sid) >= FinalizeAt
       /\ BagCardinality(inv') < BagCardinality(inv) =>
            \A e \in Invocations :
                (inv' = inv (-) SetToBag({e})
                 /\ TurnsIn(sessionState', e.sessionId) >= FinalizeAt) =>
                    FinalizedIn(sessionState', e.sessionId)]_vars

\* C16 witness: a session took exactly four messages, every invocation has
\* completed, and the session is finalized with its report POSTed.
C16_Witness ==
    \E sid \in SessionIds :
        /\ Turns(sid) = FinalizeAt
        /\ Finalized(sid)
        /\ inv = EmptyBag
        /\ Cardinality(PostsFor(sid)) = 1
\* C17: the fallback reply is a function of the request and the oracle's
\* failure alone: when the sustain handler (detect.js) answers a request whose
\* oracle call yielded no text, every other run with the same request and the
\* same oracle outcome answers with the same reply.
C17_FallbackDeterministic ==
    [][\A req \in Requests, o \in {"noCandidates", "emptyText"},
         pick \in 1..Len(fallbackReplies) :
          (DetectCallsOracle(req, TRUE) /\ DetectHandler(req, TRUE, o, pick)) =>
              \A other \in 1..Len(fallbackReplies) :
                  DetectResponse(req, TRUE, o, other).body.reply = gw'.resp.body.reply]_vars
\* the rule table: each tag with the words of its regular expression
RuleFamily ==
    [t \in {"OTP", "Bank Details", "Phishing Link", "Threat / Urgency", "Lottery Scam"} |->
        CASE t = "OTP" -> OtpPatterns
          [] t = "Bank Details" -> BankPatterns
          [] t = "Phishing Link" -> LinkPatterns
          [] t = "Threat / Urgency" -> ThreatPatterns
          [] t = "Lottery Scam" -> LotteryPatterns]

\* the tags among T that have a word occurring in the lower-cased text
TagsMatching(T, cs) ==
    {t \in T : \E pat \in RuleFamily[t] : Occurs(pat, toLowerCase(cs))}

\* per extraction text: the tags it adds to requestedData and to scamIndicators
ExpectedRequested == [cs \in ExtractTexts |-> TagsMatching({"OTP", "Bank Details"}, cs)]
ExpectedIndicators ==
    [cs \in ExtractTexts |->
        TagsMatching({"Phishing Link", "Threat / Urgency", "Lottery Scam"}, cs)]

\* C18: an accepted message adds to the session exactly the tags whose
\* family has a word occurring in the lower-cased text, each to its own set,
\* and nothing else; the two example texts add {Threat / Urgency} + {OTP} and
\* {Lottery Scam, Phishing Link} + {}; a text matching nothing adds nothing.
C18_ExtractionByRuleTable ==
    [][\A sid \in SessionIds :
          accepted'[sid] # accepted[sid] =>
            \A cs \in ExtractTexts :
                HandlerStart(MessageRequest(sid, cs)) =>
                    /\ RequestedIn(sessionState', sid)
                          = Requested(sid) \cup ExpectedRequested[cs]
                    /\ IndicatorsIn(sessionState', sid)
                          = Indicators(sid) \cup ExpectedIndicators[cs]
                    /\ cs = ExampleBlocked =>
                          /\ ExpectedIndicators[cs] = {"Threat / Urgency"}
                          /\ ExpectedRequested[cs] = {"OTP"}
                    /\ cs = ExampleWon =>
                          /\ ExpectedIndicators[cs] = {"Lottery Scam", "Phishing Link"}
                          /\ ExpectedRequested[cs] = {}
                    /\ cs = TextHello =>
                          /\ ExpectedIndicators[cs] = {}
                          /\ ExpectedRequested[cs] = {}]_vars

\* C18 witness: a session whose messages were the two example texts holds
\* the tags of both and no other.
C18_Witness ==
    \E sid \in SessionIds :
        /\ Turns(sid) = 2
        /\ Indicators(sid) = {"Threat / Urgency", "Lottery Scam", "Phishing Link"}
        /\ Requested(sid) = {"OTP"}
\* the step leaves session B as it was and POSTs no report for it
Untouched(B) ==
    /\ sessionState'[B] = sessionState[B]
    /\ PostsFor(B)' = PostsFor(B)

\* C19: a step of an invocation for one session (its entry, its resumption
\* after the oracle, its resumption after the report POST) leaves every other
\* session's counter, sets and flag unchanged and POSTs no report for it; a
\* rejected request leaves every session unchanged.
C19_SessionsIsolated ==
    [][/\ \A A \in SessionIds :
            accepted'[A] # accepted[A] =>
                \A B \in SessionIds \ {A} : Untouched(B)
       /\ (accepted' = accepted /\ inv' # inv) =>
            \A e \in Invocations :
                CopiesIn(e, inv') < CopiesIn(e, inv) =>
                    \A B \in SessionIds \ {e.sessionId} : Untouched(B)
       /\ (accepted' = accepted /\ inv' = inv) =>
            \A B \in SessionIds : Untouched(B)]_vars

\* C19 witness: one session has been finalized and reported while an
\* invocation of the other session is suspended, and the other session has
\* its single message, no finalization and no report.
C19_Witness ==
    /\ Finalized("s1")
    /\ PostsFor("s1") # {}
    /\ \E e \in Invocations : e.sessionId = "s2"
    /\ Turns("s2") = 1
    /\ ~Finalized("s2")
    /\ PostsFor("s2") = {}
\* the POST requests the session handler rejects or short-circuits: key
\* missing, empty or wrong, no body, sessionId or text missing or empty
RejectedPosts == {req \in Requests : req.method = "POST" /\ ~Accepted(req)}

\* C20: a request the session handler rejects or short-circuits leaves the
\* session store as it was, starts no oracle call and POSTs no report: no step
\* that changes any of these is the step of such a request.
C20_RejectedLeavesStore ==
    [][~UNCHANGED <<sessionState, inv, posts, accepted>> =>
          \A req \in RejectedPosts : ~HandlerStart(req)]_vars

\* C20 witness: a request without a message text has been short-circuited
\* while a session with two counted messages has an invocation suspended.
C20_Witness ==
    /\ response = Respond(200, SuccessBody(Str("Can you explain this message?")))
    /\ Turns("s1") = 2
    /\ accepted["s1"] = 2
    /\ \E e \in Invocations : e.sessionId = "s1" /\ e.pc = "awaitOracle"
    /\ sessionState["s2"] = NoSession
\* sequence p is an initial part of sequence q
IsPrefix(p, q) == Len(p) <= Len(q) /\ SubSeq(q, 1, Len(p)) = p

\* C21: in the UI engine, while the session keeps its identifier no step
\* drops or reorders transcript entries; a handleIncomingMessage that
\* completes appends exactly the scammer message and then the honeypot reply
\* and adds 2 to totalMessagesExchanged; the counter equals the transcript
\* length and the sender tags alternate starting with the scammer.
C21_TranscriptAppendOnly ==
    [][/\ session'.sessionId = session.sessionId =>
            /\ IsPrefix(session.conversationHistory, session'.conversationHistory)
            /\ Len(session'.conversationHistory) - Len(session.conversationHistory)
                  \in {0, 2}
       /\ ui.pc = "awaitLogic" =>
            \A a \in ServiceAnswers :
                (LogicDone(a) /\ ~a.throws) =>
                    /\ session'.conversationHistory =
                          session.conversationHistory \o
                            << ScammerMessage(ui.text.v),
                               HoneypotMessage(AgentReply(session, a)) >>
                    /\ session'.totalMessagesExchanged = session.totalMessagesExchanged + 2
       /\ session'.totalMessagesExchanged = Len(session'.conversationHistory)
       /\ \A i \in 1..Len(session'.conversationHistory) :
            session'.conversationHistory[i].sender =
                IF i % 2 = 1 THEN "scammer" ELSE "honeypot"]_vars

\* C21 witness: two messages have been handled to the end: four transcript
\* entries, a counter of four, nothing in flight.
C21_Witness ==
    /\ Len(session.conversationHistory) = 4
    /\ session.totalMessagesExchanged = 4
    /\ session.conversationHistory[3].sender = "scammer"
    /\ ui = NoCall
    /\ ~isLoading
\* C22: in the UI engine, while the session keeps its identifier scamDetected
\* never goes from true back to false; and a message handled for a session
\* with scamDetected set runs no detection: both runs of the logic await
\* generateAgentResponse and extractIntelligence, the stored reply is the
\* agent's, the scam type stays and the extraction result is stored.
C22_ScamDetectedMonotonic ==
    [][/\ (session.scamDetected /\ session'.sessionId = session.sessionId) =>
            session'.scamDetected
       /\ (ui.pc \in {"awaitApi", "awaitLogic"} /\ session.scamDetected) =>
            \A a \in ServiceAnswers :
                /\ (ApiAnswered(a) \/ LogicDone(a)) =>
                      ServicesCalled(ui.session, a)
                          = {"generateAgentResponse", "extractIntelligence"}
                /\ (LogicDone(a) /\ ~a.throws) =>
                      /\ session'.conversationHistory[Len(session'.conversationHistory)]
                            = HoneypotMessage(a.agent.reply)
                      /\ session'.scamType = session.scamType
                      /\ session'.extractedIntelligence = a.extraction]_vars

\* C22 witness: the first message set scamDetected, the second was answered
\* by the agent on the sustain path, and the flag is still set.
C22_Witness ==
    /\ session.scamDetected
    /\ Len(session.conversationHistory) = 4
    /\ session.conversationHistory[2] = HoneypotMessage("Oh no, what should I do?")
    /\ session.conversationHistory[4] = HoneypotMessage("Which account do you mean?")
    /\ ui = NoCall
\* C23: every report the session handler has POSTed says scamDetected =
\* true, also the report of a session that collected no tag at all.
C23_ReportsSayScam ==
    \A i \in 1..Len(posts) : posts[i].scamDetected = TRUE

\* C23 witness: a report has been POSTed for a session whose indicator and
\* requested-data lists are both empty.
C23_Witness ==
    \E i \in 1..Len(posts) :
        /\ posts[i].scamIndicators = <<>>
        /\ posts[i].requestedSensitiveData = <<>>
        /\ posts[i].scamDetected = TRUE
====
